---------------------------- MODULE Spec2Model ----------------------------
(***************************************************************************)
(* PDF-ExtractorAI: the extraction orchestrator of App.tsx (the batch      *)
(* loop of startExtraction around extractDataFromPdf, handleReset,         *)
(* handleDataUpdate, the file list) and the field matcher of               *)
(* ExcelSummary.tsx (findField over the FieldSet edited by FieldConfig).   *)
(*                                                                         *)
(* JavaScript strings are sequences of one-character strings, so that      *)
(* toLowerCase, trim and RegExp.test are computed and not assumed.         *)
(* JavaScript values are tagged records [t, v]: t is the type, v the       *)
(* payload (always a sequence).                                            *)
(***************************************************************************)
EXTENDS Integers, Sequences, FiniteSets, TLC

VARIABLES
  API_KEY,      \* geminiService: whether process.env.API_KEY is non-empty
  files,        \* App state: the documents to extract, by name
  fields,       \* App state: the FieldSet
  results,      \* App state: the Item Store
  status,       \* App state: "idle", "extracting" or "completed"
  selectedIds,  \* App state: the selection
  runs          \* the startExtraction calls that have not returned: each is
                \* the closure of one call (its files, fields, updatedResults
                \* and loop index i) and where it stands (pc); superseded
                \* records that handleReset ran after the call started
VARIABLE
  resetWhileRunning  \* history: handleReset has run while a call of
                     \* startExtraction had not returned
VARIABLES
  draggingField,  \* ResultsTable state: the column being dragged, or null
  exported        \* what the latest exportToExcel call did: nothing yet, an
                  \* alert, or a file written with its rows

vars == <<API_KEY, files, fields, results, status, selectedIds, runs, resetWhileRunning,
          draggingField, exported>>

---------------------------------------------------------------------------
(* Strings *)

S_InvoiceNumber == <<"I","n","v","o","i","c","e"," ","N","u","m","b","e","r">>
S_TotalAmount == <<"T","o","t","a","l"," ","A","m","o","u","n","t">>
S_Date == <<"D","a","t","e">>
S_VendorName == <<"V","e","n","d","o","r"," ","N","a","m","e">>
S_TaxAmount == <<"T","a","x"," ","A","m","o","u","n","t">>
S_Customer == <<"C","u","s","t","o","m","e","r">>
S_JobNo == <<"J","o","b"," ","N","o">>
S_AdvanceTotal == <<"A","d","v","a","n","c","e"," ","T","o","t","a","l">>
S_PaymentTerms == <<"P","a","y","m","e","n","t"," ","T","e","r","m","s">>
S_Invoicedate == <<"I","n","v","o","i","c","e"," ","d","a","t","e">>
S_GrandTotal == <<"G","r","a","n","d"," ","T","o","t","a","l">>
S_FullName == <<"F","u","l","l"," ","N","a","m","e">>
S_Email == <<"E","m","a","i","l">>
S_Phone == <<"P","h","o","n","e">>
S_Skills == <<"S","k","i","l","l","s">>
S_RecentExperience == <<"R","e","c","e","n","t"," ","E","x","p","e","r","i","e","n","c","e">>
S_IDNumber == <<"I","D"," ","N","u","m","b","e","r">>
S_Name == <<"N","a","m","e">>
S_DateofBirth == <<"D","a","t","e"," ","o","f"," ","B","i","r","t","h">>
S_ExpiryDate == <<"E","x","p","i","r","y"," ","D","a","t","e">>
S_Address == <<"A","d","d","r","e","s","s">>
S_ExtractionFailed == <<"E","x","t","r","a","c","t","i","o","n"," ","f","a","i","l","e","d">>
S_ApiKeyMissing == <<"A","P","I"," ","K","e","y"," ","i","s"," ","m","i","s","s","i","n","g">>

UpperChars == <<"A","B","C","D","E","F","G","H","I","J","K","L","M",
                "N","O","P","Q","R","S","T","U","V","W","X","Y","Z">>
LowerChars == <<"a","b","c","d","e","f","g","h","i","j","k","l","m",
                "n","o","p","q","r","s","t","u","v","w","x","y","z">>

\* the lower-case letter of each upper-case letter
LowerOf ==
  [c \in {UpperChars[i] : i \in DOMAIN UpperChars} |->
     LowerChars[CHOOSE i \in DOMAIN UpperChars : UpperChars[i] = c]]

\* String.prototype.toLowerCase, one character
LowerChar(c) == IF c \in DOMAIN LowerOf THEN LowerOf[c] ELSE c

\* String.prototype.toLowerCase
toLowerCase(s) == [i \in 1..Len(s) |-> LowerChar(s[i])]

WhiteSpace == {" "}

\* trim as it would be if it kept the white space
trimNothing(s) == s

\* String.prototype.trim: drops the leading and the trailing white space
trim(s) ==
  LET keep == {i \in 1..Len(s) : s[i] \notin WhiteSpace} IN
  IF keep = {} THEN <<>>
  ELSE LET lo == CHOOSE i \in keep : \A j \in keep : i <= j
           hi == CHOOSE i \in keep : \A j \in keep : j <= i
       IN SubSeq(s, lo, hi)

\* RegExp.prototype.test for a literal pattern with the i flag: the pattern
\* occurs somewhere in the string, letter case ignored
RegExpTest(p, s) ==
  \E k \in 0..(Len(s) - Len(p)) :
    \A j \in 1..Len(p) : LowerChar(s[k + j]) = LowerChar(p[j])

---------------------------------------------------------------------------
(* JavaScript values *)

JUndefined == [t |-> "undefined", v |-> <<>>]
JNull == [t |-> "null", v |-> <<>>]
JString(s) == [t |-> "string", v |-> s]
\* an object: v is the sequence of its [k, v] entries in key order
JObject(entries) == [t |-> "object", v |-> entries]

\* ToBoolean of a value: undefined, null and "" are falsy, objects truthy
Truthy(x) ==
  CASE x.t = "undefined" -> FALSE
    [] x.t = "null" -> FALSE
    [] x.t = "string" -> x.v # <<>>
    [] OTHER -> TRUE

---------------------------------------------------------------------------
(* FieldConfig: the FieldSet and its edits *)

DefaultFields == <<S_InvoiceNumber, S_TotalAmount, S_Date>>

TemplateTypes == {"invoice", "job_invoice", "resume", "id_card"}

TemplateFields(type) ==
  CASE type = "invoice" ->
         <<S_InvoiceNumber, S_Date, S_TotalAmount, S_VendorName, S_TaxAmount>>
    [] type = "job_invoice" ->
         <<S_Customer, S_JobNo, S_AdvanceTotal, S_PaymentTerms, S_Invoicedate,
           S_GrandTotal>>
    [] type = "resume" ->
         <<S_FullName, S_Email, S_Phone, S_Skills, S_RecentExperience>>
    [] type = "id_card" ->
         <<S_IDNumber, S_Name, S_DateofBirth, S_ExpiryDate, S_Address>>

\* Array.prototype.includes
includes(arr, x) == \E i \in DOMAIN arr : arr[i] = x

\* the FieldConfig controls are rendered inert while a batch is extracting
FieldConfigDisabled == status = "extracting"

\* what the user can type into the new-field input
NewFieldInputs ==
  { <<" ","N","a","m","e"," ">>, <<" ">>, <<>>, S_Date, <<"T","o","t","a","l">> }

handleAddField(newField) ==
  /\ ~FieldConfigDisabled
  /\ trim(newField) # <<>>
  /\ ~includes(fields, trim(newField))
  /\ fields' = Append(fields, trim(newField))
  /\ UNCHANGED <<API_KEY, files, results, status, selectedIds, runs, resetWhileRunning, draggingField, exported>>

removeField(fieldToRemove) ==
  /\ ~FieldConfigDisabled
  /\ includes(fields, fieldToRemove)
  /\ LET other(f) == f # fieldToRemove IN fields' = SelectSeq(fields, other)
  /\ UNCHANGED <<API_KEY, files, results, status, selectedIds, runs, resetWhileRunning, draggingField, exported>>

applyTemplate(type) ==
  /\ ~FieldConfigDisabled
  /\ fields' = TemplateFields(type)
  /\ UNCHANGED <<API_KEY, files, results, status, selectedIds, runs, resetWhileRunning, draggingField, exported>>

---------------------------------------------------------------------------
(* FieldMatcher: findField of summaryRows *)

\* Array.prototype.find visits the indices in order: the least index of
\* the set of matching indices, 0 if there is none
firstIndex(matching) ==
  IF matching = {} THEN 0
  ELSE CHOOSE i \in matching : \A j \in matching : i <= j

\* fields.find(f => patterns.some(p => p.test(f.toLowerCase())))
findField(patterns) ==
  LET matches(f) == \E p \in DOMAIN patterns : RegExpTest(patterns[p], toLowerCase(f))
      i == firstIndex({k \in DOMAIN fields : matches(fields[k])})
  IN IF i = 0 THEN JUndefined ELSE JString(fields[i])

Roles == {"Customer", "JobNumber", "AdvanceTotal", "PaymentTerms", "InvoiceDate",
          "GrandTotal"}

RolePatterns(role) ==
  CASE role = "Customer" ->
         << <<"c","u","s","t","o","m","e","r">>, <<"n","a","m","e">>,
            <<"c","l","i","e","n","t">> >>
    [] role = "JobNumber" ->
         << <<"j","o","b"," ","n","o">>, <<"j","o","b">>,
            <<"n","u","m","b","e","r">> >>
    [] role = "AdvanceTotal" ->
         << <<"a","d","v","a","n","c","e"," ","t","o","t","a","l">>,
            <<"a","d","v","a","n","c","e">> >>
    [] role = "PaymentTerms" ->
         << <<"p","a","y","m","e","n","t"," ","t","e","r","m","s">>,
            <<"t","e","r","m","s">>, <<"p","a","y","m","e","n","t">> >>
    [] role = "InvoiceDate" ->
         << <<"i","n","v","o","i","c","e"," ","d","a","t","e">>,
            <<"d","a","t","e">> >>
    [] role = "GrandTotal" ->
         << <<"g","r","a","n","d"," ","t","o","t","a","l">>,
            <<"t","o","t","a","l"," ","a","m","o","u","n","t">>,
            <<"t","o","t","a","l">>, <<"a","m","o","u","n","t">> >>

\* the field each role resolves to
resolveRole(role) == findField(RolePatterns(role))


---------------------------------------------------------------------------
(* Bounds *)

\* the most documents the file list holds
MaxFiles == 2
\* the most startExtraction calls that have not returned
MaxRuns == 2

\* the document names a user can pick
FileNames == {"a.pdf", "b.pdf"}
\* the strings generateId can return
Ids == {"id1", "id2"}
\* the ids drawn for a batch of n documents: pairwise distinct, or all equal
IdVectors(n) ==
  { [k \in 1..n |-> IF k = 1 THEN "id1" ELSE "id2"], [k \in 1..n |-> "id2"] }

---------------------------------------------------------------------------
(* The file list *)

\* a startExtraction call is between two awaits: it runs to its next await
\* before any other handler or completion is scheduled
Busy == \E r \in DOMAIN runs : runs[r].pc = "loop"

\* FileUpload is rendered inert while a batch is extracting
FileUploadDisabled == status = "extracting"

handleFilesSelected(newFiles) ==
  /\ ~Busy
  /\ ~FileUploadDisabled
  /\ LET unique(f) == ~includes(files, f)
         uniqueFiles == SelectSeq(newFiles, unique)
     IN /\ Len(files) + Len(uniqueFiles) <= MaxFiles
        /\ files' = files \o uniqueFiles
  /\ UNCHANGED <<API_KEY, fields, results, status, selectedIds, runs, resetWhileRunning, draggingField, exported>>

handleRemoveFile(index) ==
  /\ ~Busy
  /\ ~FileUploadDisabled
  /\ index \in DOMAIN files
  /\ files' = [k \in 1..(Len(files) - 1) |-> IF k < index THEN files[k] ELSE files[k + 1]]
  /\ UNCHANGED <<API_KEY, fields, results, status, selectedIds, runs, resetWhileRunning, draggingField, exported>>

---------------------------------------------------------------------------
(* extractDataFromPdf *)

S_message == <<"m","e","s","s","a","g","e">>
S_type == <<"t","y","p","e">>
S_error == <<"e","r","r","o","r">>

\* an Error object carrying a message
JError(msg) == JObject(<< [k |-> S_message, v |-> JString(msg)] >>)
\* the ProgressEvent a failing FileReader rejects with: it has no message
ProgressEvent == JObject(<< [k |-> S_type, v |-> JString(S_error)] >>)

\* the values a requested field can come back with
ResponseValues == {JString(<<"A","c","m","e">>)}

\* the objects JSON.parse can return for the requested fields: every
\* requested field as a key, in request order
ResponseObjects(fs) ==
  { JObject([j \in 1..Len(fs) |-> [k |-> fs[j], v |-> val]]) : val \in ResponseValues }

Resolve(value) == [kind |-> "resolve", value |-> value]
Reject(value) == [kind |-> "reject", value |-> value]

\* how the promise of extractDataFromPdf(file, fs) can settle
extractDataFromPdf(file, fs) ==
  IF ~API_KEY THEN { Reject(JError(S_ApiKeyMissing)) }
  ELSE \* fileToGenerativePart: reader.onerror = reject
       { Reject(ProgressEvent) }
       \* generateContent rejects with whatever the client library rejects
       \* with, here undefined: logged and thrown again
       \cup { Reject(JUndefined) }
       \* if (!text) return {}
       \cup { Resolve(JObject(<<>>)) }
       \* return JSON.parse(text)
       \cup { Resolve(JNull) }
       \cup { Resolve(o) : o \in ResponseObjects(fs) }

---------------------------------------------------------------------------
(* The Item Store and startExtraction *)

\* Math.random().toString(36).substring(2, 9)
generateId == Ids

\* initialResults as it would be if the new items were added to the Store
\* instead of replacing it
initialResultsAppended(fs, ids) ==
  results \o [k \in 1..Len(fs) |->
                [id |-> ids[k], fileName |-> fs[k], status |-> "pending",
                 data |-> JUndefined, error |-> JUndefined]]

\* files.map(file => ({ id: generateId(), fileName: file.name, status: 'pending' }))
initialResults(fs, ids) ==
  [k \in 1..Len(fs) |->
     [id |-> ids[k], fileName |-> fs[k], status |-> "pending",
      data |-> JUndefined, error |-> JUndefined]]

\* StartDisabled as it would be if the button stayed enabled while extracting
StartDisabledIgnoringStatus == Len(files) = 0 \/ Len(fields) = 0

\* the Start Extraction button is disabled
StartDisabled == status = "extracting" \/ Len(files) = 0 \/ Len(fields) = 0

\* startExtraction up to the loop: setStatus, setResults(initialResults),
\* setSelectedIds
startExtraction(ids) ==
  /\ ids \in [DOMAIN files -> generateId]
  /\ ~Busy
  /\ ~StartDisabled
  /\ ~(Len(files) = 0 \/ Len(fields) = 0)
  /\ Len(runs) < MaxRuns
  /\ status' = "extracting"
  /\ results' = initialResults(files, ids)
  /\ selectedIds' = IF Len(files) > 0 THEN {ids[1]} ELSE {}
  /\ runs' = Append(runs, [files |-> files, fields |-> fields,
                           updatedResults |-> initialResults(files, ids),
                           i |-> 1, pc |-> "loop", superseded |-> FALSE])
  /\ UNCHANGED <<API_KEY, files, fields, resetWhileRunning, draggingField, exported>>

\* the sequence s without its r-th element
RemoveAt(s, r) == [k \in 1..(Len(s) - 1) |-> IF k < r THEN s[k] ELSE s[k + 1]]

\* LoopContinues as it would be if the loop stopped one document early
LoopContinuesOneShort(r) == runs[r].i < Len(runs[r].files)

\* the loop test i < files.length of run r
LoopContinues(r) == runs[r].i <= Len(runs[r].files)

\* markProcessing as it would be if every item not yet processed were started
\* at once
markProcessingAllPending(updated, i) ==
  [k \in DOMAIN updated |->
     IF k >= i THEN [updated[k] EXCEPT !.status = "processing"] ELSE updated[k]]

\* updatedResults[i] = {...updatedResults[i], status: 'processing'}
markProcessing(updated, i) == [updated EXCEPT ![i].status = "processing"]

\* the head of one loop iteration: the item is set to processing, the Store
\* is replaced by a copy of updatedResults and extractDataFromPdf is called
LoopBody(r) ==
  /\ runs[r].pc = "loop"
  /\ LoopContinues(r)
  /\ LET updated == markProcessing(runs[r].updatedResults, runs[r].i) IN
       /\ results' = updated
       /\ runs' = [runs EXCEPT ![r].updatedResults = updated, ![r].pc = "await"]
  /\ UNCHANGED <<API_KEY, files, fields, status, selectedIds, resetWhileRunning, draggingField, exported>>

\* the loop is over: setStatus('completed') and the call returns
LoopExit(r) ==
  /\ runs[r].pc = "loop"
  /\ ~LoopContinues(r)
  /\ status' = "completed"
  /\ runs' = RemoveAt(runs, r)
  /\ UNCHANGED <<API_KEY, files, fields, results, selectedIds, resetWhileRunning, draggingField, exported>>

\* the value of property k of an object, undefined when it has none
GetProp(obj, k) ==
  IF \E j \in DOMAIN obj.v : obj.v[j].k = k
  THEN obj.v[CHOOSE j \in DOMAIN obj.v : obj.v[j].k = k].v
  ELSE JUndefined

\* reading a property of undefined or null throws a TypeError
ThrowsOnPropertyRead(x) == x.t \in {"undefined", "null"}

\* (error as Error).message || 'Extraction failed'
errorMessage(error) ==
  IF Truthy(GetProp(error, S_message)) THEN GetProp(error, S_message)
  ELSE JString(S_ExtractionFailed)

\* the try branch: updatedResults[i] = {..., status: 'success', data: data}
commitSuccess(updated, i, data) ==
  [updated EXCEPT ![i].status = "success", ![i].data = data]

\* the catch branch: updatedResults[i] = {..., status: 'error', error: ...}
commitError(updated, i, error) ==
  [updated EXCEPT ![i].status = "error", ![i].error = errorMessage(error)]

\* the awaited promise of run r settles with outcome and the iteration ends:
\* the item is committed and the Store replaced by a copy of updatedResults
Settle(r, outcome) ==
  /\ runs[r].pc = "await"
  /\ ~(outcome.kind = "reject" /\ ThrowsOnPropertyRead(outcome.value))
  /\ LET updated ==
           IF outcome.kind = "resolve"
           THEN commitSuccess(runs[r].updatedResults, runs[r].i, outcome.value)
           ELSE commitError(runs[r].updatedResults, runs[r].i, outcome.value)
     IN /\ results' = updated
        /\ runs' = [runs EXCEPT ![r].updatedResults = updated,
                                ![r].i = runs[r].i + 1, ![r].pc = "loop"]
  /\ UNCHANGED <<API_KEY, files, fields, status, selectedIds, resetWhileRunning, draggingField, exported>>

\* the awaited promise rejects with a value whose message cannot be read:
\* the catch block throws and startExtraction ends with that fault
Fault(r, outcome) ==
  /\ runs[r].pc = "await"
  /\ outcome.kind = "reject" /\ ThrowsOnPropertyRead(outcome.value)
  /\ runs' = [runs EXCEPT ![r].pc = "fault"]
  /\ UNCHANGED <<API_KEY, files, fields, results, status, selectedIds, resetWhileRunning, draggingField, exported>>

\* the call extractDataFromPdf(file, fields) of run r returns or throws
ExtractionSettles(r) ==
  /\ ~Busy
  /\ runs[r].pc = "await"
  /\ \E outcome \in extractDataFromPdf(runs[r].files[runs[r].i], runs[r].fields) :
       Settle(r, outcome) \/ Fault(r, outcome)

\* the call of run r has not returned
Running(r) == runs[r].pc \in {"loop", "await"}

\* the Reset button is rendered
ResetVisible == status # "idle"

\* handleReset, the confirm dialog answered with OK
handleReset ==
  /\ ~Busy
  /\ ResetVisible
  /\ files' = <<>>
  /\ results' = <<>>
  /\ status' = "idle"
  /\ selectedIds' = {}
  /\ runs' = [r \in DOMAIN runs |->
                IF Running(r) THEN [runs[r] EXCEPT !.superseded = TRUE] ELSE runs[r]]
  /\ resetWhileRunning' = (resetWhileRunning \/ \E r \in DOMAIN runs : Running(r))
  /\ draggingField' = JNull  \* the ResultsTable is unmounted with an empty Store
  /\ UNCHANGED <<API_KEY, fields, exported>>

\* {...obj, [k]: value}
SetProp(obj, k, value) ==
  IF \E j \in DOMAIN obj.v : obj.v[j].k = k
  THEN JObject([j \in DOMAIN obj.v |->
                  IF obj.v[j].k = k THEN [k |-> k, v |-> value] ELSE obj.v[j]])
  ELSE JObject(Append(obj.v, [k |-> k, v |-> value]))

\* what the user types into a cell, and the columns the user edits
CellInputs == { <<"Z">> }
EditedColumns == {1}

\* the cell of a row is an input
isEditable(row) == row.status = "success"

updateItem(item, id, field, value) ==
  IF item.id = id /\ Truthy(item.data)
  THEN [item EXCEPT !.data = SetProp(item.data, field, JString(value))]
  ELSE item

handleDataUpdate(id, field, value) ==
  /\ ~Busy
  /\ \E k \in DOMAIN results : results[k].id = id /\ isEditable(results[k])
  /\ includes(fields, field)
  /\ results' = [k \in DOMAIN results |-> updateItem(results[k], id, field, value)]
  /\ UNCHANGED <<API_KEY, files, fields, status, selectedIds, runs, resetWhileRunning, draggingField, exported>>

---------------------------------------------------------------------------
(* The selection *)

\* handleSelect: toggles the membership of id in the selection
handleSelect(id) ==
  /\ ~Busy
  /\ \E k \in DOMAIN results : results[k].id = id
  /\ selectedIds' = IF id \in selectedIds THEN selectedIds \ {id} ELSE selectedIds \cup {id}
  /\ UNCHANGED <<API_KEY, files, fields, results, status, runs, resetWhileRunning, draggingField, exported>>

\* handleSelectAll(ids, shouldSelect), called by the header check box with
\* the ids of all rows
handleSelectAll(ids, shouldSelect) ==
  /\ ~Busy
  /\ Len(results) > 0
  /\ selectedIds' = IF shouldSelect THEN selectedIds \cup ids ELSE selectedIds \ ids
  /\ UNCHANGED <<API_KEY, files, fields, results, status, runs, resetWhileRunning, draggingField, exported>>

---------------------------------------------------------------------------
(* ExcelSummary: summaryRows *)

S_Unknown == <<"U","n","k","n","o","w","n">>
S_undefined == <<"u","n","d","e","f","i","n","e","d">>
S_null == <<"n","u","l","l">>
S_objectObject == <<"[","o","b","j","e","c","t"," ","O","b","j","e","c","t","]">>
S_Dash == <<"-">>
S_CommaSpace == <<",", " ">>

\* String(x)
String(x) ==
  CASE x.t = "string" -> x.v
    [] x.t = "null" -> S_null
    [] x.t = "undefined" -> S_undefined
    [] OTHER -> S_objectObject

\* obj?.[field]: the property whose key is field converted to a string
GetField(obj, field) ==
  IF obj.t \in {"undefined", "null"} THEN JUndefined ELSE GetProp(obj, String(field))

\* Array.prototype.join
RECURSIVE join(_, _)
join(arr, sep) ==
  IF Len(arr) = 0 THEN <<>>
  ELSE IF Len(arr) = 1 THEN arr[1]
  ELSE arr[1] \o sep \o join(Tail(arr), sep)

\* Set.prototype.add as it would be if it kept duplicates
addKeepingDuplicates(set, x) == Append(set, x)

\* Set.prototype.add: a Set keeps its members in insertion order, once each
add(set, x) == IF includes(set, x) THEN set ELSE Append(set, x)

Digits == <<"0","1","2","3","4","5","6","7","8","9">>
IsDigit(c) == \E d \in DOMAIN Digits : Digits[d] = c
DigitValue(c) == (CHOOSE d \in DOMAIN Digits : Digits[d] = c) - 1

\* a and b are digit strings without leading zero: a is the lesser number
NumericLess(a, b) ==
  \/ Len(a) < Len(b)
  \/ /\ Len(a) = Len(b)
     /\ \E i \in DOMAIN a :
          /\ DigitValue(a[i]) < DigitValue(b[i])
          /\ \A j \in 1..(i - 1) : a[j] = b[j]

\* 2^32 - 1, the first integer that is not an array index
S_MaxUint32 == <<"4","2","9","4","9","6","7","2","9","5">>

\* the property key is an array index: the canonical decimal string of an
\* integer from 0 to 2^32 - 2
IsArrayIndex(key) ==
  /\ Len(key) > 0
  /\ \A i \in DOMAIN key : IsDigit(key[i])
  /\ Len(key) = 1 \/ key[1] # "0"
  /\ NumericLess(key, S_MaxUint32)

\* own property keys of an object whose keys were inserted in the order of
\* entries: a precedes b. Array indices come first in ascending numeric
\* order, then the other string keys in insertion order
OwnKeyBefore(entries, a, b) ==
  IF IsArrayIndex(entries[a].key) /\ IsArrayIndex(entries[b].key)
  THEN NumericLess(entries[a].key, entries[b].key)
  ELSE IF IsArrayIndex(entries[a].key) THEN ~IsArrayIndex(entries[b].key)
  ELSE ~IsArrayIndex(entries[b].key) /\ a < b

\* Object.entries(groups), entries being the groups in insertion order
ObjectEntries(entries) ==
  LET rank(a) == 1 + Cardinality({b \in DOMAIN entries : OwnKeyBefore(entries, b, a)})
  IN [p \in DOMAIN entries |-> entries[CHOOSE a \in DOMAIN entries : rank(a) = p]]

\* data.filter(item => selectedIds.has(item.id) && item.status === 'success' && item.data)
selectedItems ==
  SelectSeq(results, LAMBDA item :
    item.id \in selectedIds /\ item.status = "success" /\ Truthy(item.data))

\* customerField as it would be without the fallback to fields[0]
customerFieldWithoutFallback == resolveRole("Customer")

\* findField([/customer/i, /name/i, /client/i]) || fields[0]
customerField ==
  IF Truthy(resolveRole("Customer")) THEN resolveRole("Customer")
  ELSE IF Len(fields) > 0 THEN JString(fields[1]) ELSE JUndefined

jobField == resolveRole("JobNumber")
advanceField == resolveRole("AdvanceTotal")
termsField == resolveRole("PaymentTerms")
dateField == resolveRole("InvoiceDate")
grandTotalField == resolveRole("GrandTotal")

\* the constants of step 2, which the forEach callback closes over
roleFields ==
  [customerField |-> customerField, jobField |-> jobField,
   advanceField |-> advanceField, termsField |-> termsField,
   dateField |-> dateField, grandTotalField |-> grandTotalField]

\* const customerVal = item.data?.[customerField]
customerVal(item, found) == GetField(item.data, found.customerField)

\* String(customerVal || 'Unknown')
customerName(item, found) ==
  LET val == customerVal(item, found)
  IN String(IF Truthy(val) THEN val ELSE JString(S_Unknown))

\* const customerKey = String(customerVal || 'Unknown').trim()
customerKey(item, found) == trim(customerName(item, found))

\* normalizedKey as it would be without the case-folding
normalizedKeyCaseKept(item, found) == customerKey(item, found)

\* const normalizedKey = customerKey.toLowerCase()
normalizedKey(item, found) == toLowerCase(customerKey(item, found))

\* the group object created for a key not seen before; groups whose key is
\* the name of a member of Object.prototype are left out
newGroup(item, found) ==
  [key |-> normalizedKey(item, found), customerName |-> customerName(item, found),
   jobNos |-> <<>>, advanceTotals |-> <<>>, paymentTerms |-> <<>>,
   invoiceDates |-> <<>>, grandTotals |-> <<>>, files |-> <<>>, ids |-> <<>>]

\* if (field && item.data?.[field]) set.add(String(item.data[field]))
addToSet(set, field, item) ==
  LET val == GetField(item.data, field)
  IN IF Truthy(field) /\ Truthy(val) THEN add(set, String(val)) ELSE set

\* the body of selectedItems.forEach for item, groups being the groups in
\* the order their keys were inserted
forEachItem(groups, item, found) ==
  LET key == normalizedKey(item, found)
      present == \E g \in DOMAIN groups : groups[g].key = key
      withKey == IF present THEN groups ELSE Append(groups, newGroup(item, found))
      g == CHOOSE k \in DOMAIN withKey : withKey[k].key = key
      group == withKey[g]
  IN [withKey EXCEPT ![g] =
        [group EXCEPT
           !.jobNos = addToSet(group.jobNos, found.jobField, item),
           !.advanceTotals = addToSet(group.advanceTotals, found.advanceField, item),
           !.paymentTerms = addToSet(group.paymentTerms, found.termsField, item),
           !.invoiceDates = addToSet(group.invoiceDates, found.dateField, item),
           !.grandTotals = addToSet(group.grandTotals, found.grandTotalField, item),
           !.files = Append(group.files, item.fileName),
           !.ids = Append(group.ids, item.id)]]

\* groups after forEach has visited the first n items
RECURSIVE groupsAfter(_, _, _)
groupsAfter(items, n, found) ==
  IF n = 0 THEN <<>>
  ELSE LET groups == groupsAfter(items, n - 1, found)
       IN forEachItem(groups, items[n], found)

\* set.size > 0 ? Array.from(set).join(', ') : '-'
display(set) == IF Len(set) > 0 THEN join(set, S_CommaSpace) ELSE S_Dash

\* the row of Object.entries(groups).map(...) for a group
summaryRow(group) ==
  [key |-> group.key,
   customerName |-> group.customerName,
   jobNos |-> display(group.jobNos),
   advanceTotal |-> display(group.advanceTotals),
   paymentTerms |-> display(group.paymentTerms),
   invoiceDate |-> display(group.invoiceDates),
   grandTotal |-> display(group.grandTotals),
   fileCount |-> Len(group.files),
   ids |-> group.ids]

\* the value of the useMemo over [data, selectedIds, fields]
summaryRows ==
  IF Len(selectedItems) = 0 THEN <<>>
  ELSE LET found == roleFields
           groups == groupsAfter(selectedItems, Len(selectedItems), found)
           entries == ObjectEntries(groups)
       IN [p \in DOMAIN entries |-> summaryRow(entries[p])]

---------------------------------------------------------------------------
(* ResultsTable: reordering the columns by drag and drop *)

\* the ResultsTable is rendered
ResultsTableRendered == Len(results) > 0

\* Array.prototype.indexOf: the first index from 0, -1 when absent
indexOf(arr, x) ==
  IF includes(arr, x) THEN firstIndex({i \in DOMAIN arr : arr[i] = x}) - 1 ELSE -1

\* arr after arr.splice(start, 1)
spliceDelete(arr, start) ==
  [k \in 1..(Len(arr) - 1) |-> IF k <= start THEN arr[k] ELSE arr[k + 1]]

\* arr after arr.splice(start, 0, x), start at most arr.length
spliceInsert(arr, start, x) ==
  SubSeq(arr, 1, start) \o <<x>> \o SubSeq(arr, start + 1, Len(arr))

\* handleDragStart: a column header is picked up
handleDragStart(field) ==
  /\ ~Busy
  /\ ResultsTableRendered
  /\ includes(fields, field)
  /\ draggingField' = JString(field)
  /\ UNCHANGED <<API_KEY, files, fields, results, status, selectedIds, runs, resetWhileRunning, exported>>

\* handleReorderFields: setFields(newFields)
handleReorderFields(newFields) == fields' = newFields

\* handleDrop: something is dropped on the header of targetField
handleDrop(targetField) ==
  /\ ~Busy
  /\ ResultsTableRendered
  /\ includes(fields, targetField)
  /\ IF ~Truthy(draggingField) \/ draggingField.v = targetField
     THEN UNCHANGED <<fields, draggingField>>
     ELSE LET fromIndex == indexOf(fields, draggingField.v)
              toIndex == indexOf(fields, targetField)
          IN /\ IF fromIndex # -1 /\ toIndex # -1
                THEN handleReorderFields(
                       spliceInsert(spliceDelete(fields, fromIndex), toIndex,
                                    draggingField.v))
                ELSE UNCHANGED fields
             /\ draggingField' = JNull
  /\ UNCHANGED <<API_KEY, files, results, status, selectedIds, runs, resetWhileRunning, exported>>

---------------------------------------------------------------------------
(* exportToExcel *)

S_FileName == <<"F","i","l","e","N","a","m","e">>

\* the selectedIds argument: a Set, or undefined when it is left out
SelectionGiven(ids) == [given |-> TRUE, ids |-> ids]
NoSelection == [given |-> FALSE, ids |-> {}]

\* {...obj, ...source} for the first n entries of source
RECURSIVE spread(_, _, _)
spread(obj, source, n) ==
  IF n = 0 THEN obj
  ELSE SetProp(spread(obj, source, n - 1), source[n].k, source[n].v)

\* ({ FileName: item.fileName, ...item.data })
exportRow(item) ==
  spread(JObject(<< [k |-> S_FileName, v |-> [t |-> "string", v |-> item.fileName]] >>),
         item.data.v, Len(item.data.v))

\* the filter of exportToExcel as it would be if it ignored the selection
exportableIgnoringSelection(item, selected) ==
  item.status = "success" /\ Truthy(item.data)

\* the filter of exportToExcel
exportable(item, selected) ==
  LET isSuccess == item.status = "success" /\ Truthy(item.data)
  IN IF ~isSuccess THEN FALSE
     ELSE IF selected.given THEN item.id \in selected.ids ELSE TRUE

\* data.filter(...).map(...)
exportableData(data, selected) ==
  LET kept == SelectSeq(data, LAMBDA item : exportable(item, selected))
  IN [i \in DOMAIN kept |-> exportRow(kept[i])]

\* exportToExcel: the alert, or the file written with one row per object
exportToExcel(data, selected, filename) ==
  exported' =
    IF Len(exportableData(data, selected)) = 0
    THEN [kind |-> "alert", filename |-> "", rows |-> <<>>]
    ELSE [kind |-> "file", filename |-> filename,
          rows |-> exportableData(data, selected)]

\* the keys of rows[1..n] in the order of their first appearance
RECURSIVE keysOfRows(_, _)
keysOfRows(rows, n) ==
  IF n = 0 THEN <<>>
  ELSE LET before == keysOfRows(rows, n - 1)
           fresh == SelectSeq(rows[n].v, LAMBDA e : ~includes(before, e.k))
       IN before \o [i \in DOMAIN fresh |-> fresh[i].k]

\* the header row of XLSX.utils.json_to_sheet(exportableData): one column
\* per key of the row objects, in the order the keys first appear
sheetColumns(rows) == keysOfRows(rows, Len(rows))

\* the Export Selected button is disabled
ExportSelectedDisabled == Len(results) = 0 \/ selectedIds = {}

\* the Export All button is disabled
ExportAllDisabled == ~\E k \in DOMAIN results : results[k].status = "success"

handleExport ==
  /\ ~Busy
  /\ Len(results) > 0
  /\ ~ExportSelectedDisabled
  /\ exportToExcel(results, SelectionGiven(selectedIds), "extracted_data.xlsx")
  /\ UNCHANGED <<API_KEY, files, fields, results, status, selectedIds, runs, resetWhileRunning, draggingField>>

handleExportAll ==
  /\ ~Busy
  /\ Len(results) > 0
  /\ ~ExportAllDisabled
  /\ exportToExcel(results, NoSelection, "all_extracted_data.xlsx")
  /\ UNCHANGED <<API_KEY, files, fields, results, status, selectedIds, runs, resetWhileRunning, draggingField>>

\* no exportToExcel call yet
NothingExported == [kind |-> "none", filename |-> "", rows |-> <<>>]

---------------------------------------------------------------------------
(* Initial state: the useState defaults of App *)

Init ==
  /\ API_KEY \in BOOLEAN
  /\ files = <<>>
  /\ fields = DefaultFields
  /\ results = <<>>
  /\ status = "idle"
  /\ selectedIds = {}
  /\ runs = <<>>
  /\ resetWhileRunning = FALSE
  /\ draggingField = JNull
  /\ exported = NothingExported

---------------------------------------------------------------------------
(* The FieldSet under the FieldConfig edits alone *)

NextFields ==
  \/ \E newField \in NewFieldInputs : handleAddField(newField)
  \/ \E i \in DOMAIN fields : removeField(fields[i])
  \/ \E type \in TemplateTypes : applyTemplate(type)

SpecFields == Init /\ [][NextFields]_vars

---------------------------------------------------------------------------
(* The orchestrator: batches, resets, file and field edits, cell edits *)

Next ==
  \/ \E f \in FileNames : handleFilesSelected(<<f>>)
  \/ \E index \in DOMAIN files : handleRemoveFile(index)
  \/ \E ids \in IdVectors(Len(files)) : startExtraction(ids)
  \/ \E r \in DOMAIN runs : LoopBody(r)
  \/ \E r \in DOMAIN runs : LoopExit(r)
  \/ \E r \in DOMAIN runs : ExtractionSettles(r)
  \/ handleReset
  \/ \E k \in DOMAIN results, f \in DOMAIN fields \cap EditedColumns, value \in CellInputs :
       handleDataUpdate(results[k].id, fields[f], value)

Spec == Init /\ [][Next]_vars

---------------------------------------------------------------------------
(* The summary of a completed batch under changes of the selection *)

\* the most items of a completed batch
MaxItems == 3

S_Acme == <<"A","c","m","e">>
S_acmeSpaced == <<" ","a","c","m","e"," ">>
S_42 == <<"4","2">>
S_unknown == <<"u","n","k","n","o","w","n">>
S_J1 == <<"J","1">>
S_J2 == <<"J","2">>

\* the ids and names of the items of a completed batch, by position
ItemIds == <<"id1", "id2", "id3">>
ItemFileNames == <<"a.pdf", "b.pdf", "c.pdf">>

\* the FieldSets the batch was extracted with
SummaryFieldSets == {DefaultFields, TemplateFields("job_invoice")}

\* what the response holds for the first and for the second field: every
\* property of the response schema is a nullable string
ResponsePairs ==
  { <<JString(S_Acme), JNull>>, <<JString(S_Acme), JString(S_J1)>>,
    <<JString(S_Acme), JString(S_J2)>>, <<JString(S_acmeSpaced), JString(S_J1)>>,
    <<JString(S_42), JString(S_J2)>>, <<JString(<<" ">>), JNull>>,
    <<JString(<<>>), JNull>>, <<JNull, JString(S_J1)>>,
    <<JString(S_unknown), JNull>> }

\* the parsed response: one property per requested field
ResponseObject(fs, first, second) ==
  JObject([k \in DOMAIN fs |->
             [k |-> fs[k],
              v |-> IF k = 1 THEN first ELSE IF k = 2 THEN second ELSE JNull]])

\* the outcomes of a finished iteration of startExtraction: success with the
\* parsed response (an object or null), or error
Outcomes ==
  { [status |-> "success", object |-> TRUE, first |-> pair[1], second |-> pair[2]] :
      pair \in ResponsePairs }
  \cup { [status |-> "success", object |-> FALSE, first |-> JNull, second |-> JNull],
         [status |-> "error", object |-> FALSE, first |-> JNull, second |-> JNull] }

\* the item that the iteration for document k leaves in the Store
FinishedItem(fs, k, outcome) ==
  [id |-> ItemIds[k], fileName |-> ItemFileNames[k], status |-> outcome.status,
   data |-> IF outcome.status = "error" THEN JUndefined
            ELSE IF outcome.object
                 THEN ResponseObject(fs, outcome.first, outcome.second)
                 ELSE JNull,
   error |-> IF outcome.status = "error" THEN JString(S_ExtractionFailed)
             ELSE JUndefined]

\* the state when a batch of 1..MaxItems documents has completed: the first
\* item is selected by startExtraction
InitSummary ==
  /\ API_KEY = TRUE
  /\ fields \in SummaryFieldSets
  /\ \E n \in 1..MaxItems :
       /\ files = [k \in 1..n |-> ItemFileNames[k]]
       /\ \E outcomes \in [1..n -> Outcomes] :
            results = [k \in 1..n |-> FinishedItem(fields, k, outcomes[k])]
  /\ status = "completed"
  /\ selectedIds = {ItemIds[1]}
  /\ runs = <<>>
  /\ resetWhileRunning = FALSE
  /\ draggingField = JNull
  /\ exported = NothingExported

NextSummary ==
  \/ \E k \in DOMAIN results : handleSelect(results[k].id)
  \/ \E shouldSelect \in BOOLEAN :
       handleSelectAll({results[k].id : k \in DOMAIN results}, shouldSelect)

SpecSummary == InitSummary /\ [][NextSummary]_vars

---------------------------------------------------------------------------
(* The FieldSet of a completed batch under FieldConfig edits and column   *)
(* drag and drop                                                          *)

\* the most columns the user adds fields up to
MaxColumns == 4

\* the templates the user applies
ColumnTemplates == {"invoice"}

\* a batch of one document has completed with the default FieldSet
InitColumns ==
  /\ API_KEY = TRUE
  /\ fields = DefaultFields
  /\ files = <<ItemFileNames[1]>>
  /\ results = <<FinishedItem(DefaultFields, 1,
                   [status |-> "success", object |-> TRUE,
                    first |-> JString(S_Acme), second |-> JNull])>>
  /\ status = "completed"
  /\ selectedIds = {ItemIds[1]}
  /\ runs = <<>>
  /\ resetWhileRunning = FALSE
  /\ draggingField = JNull
  /\ exported = NothingExported

NextColumns ==
  \/ \E newField \in NewFieldInputs : Len(fields) < MaxColumns /\ handleAddField(newField)
  \/ \E i \in DOMAIN fields : removeField(fields[i])
  \/ \E type \in ColumnTemplates : applyTemplate(type)
  \/ \E i \in DOMAIN fields : handleDragStart(fields[i])
  \/ \E i \in DOMAIN fields : handleDrop(fields[i])

SpecColumns == InitColumns /\ [][NextColumns]_vars

---------------------------------------------------------------------------
(* The exports of a completed batch under changes of the selection *)

NextExport ==
  \/ \E k \in DOMAIN results : handleSelect(results[k].id)
  \/ \E shouldSelect \in BOOLEAN :
       handleSelectAll({results[k].id : k \in DOMAIN results}, shouldSelect)
  \/ handleExport
  \/ handleExportAll

\* a completed batch that was extracted with the default FieldSet
InitExport == InitSummary /\ fields = DefaultFields

SpecExport == InitExport /\ [][NextExport]_vars

---------------------------------------------------------------------------
(* The exports of a completed batch under FieldConfig edits and column    *)
(* drag and drop                                                          *)

NextExportColumns ==
  \/ \E newField \in NewFieldInputs : Len(fields) < MaxColumns /\ handleAddField(newField)
  \/ \E i \in DOMAIN fields : removeField(fields[i])
  \/ \E type \in ColumnTemplates : applyTemplate(type)
  \/ \E i \in DOMAIN fields : handleDragStart(fields[i])
  \/ \E i \in DOMAIN fields : handleDrop(fields[i])
  \/ handleExport
  \/ handleExportAll

SpecExportColumns == InitColumns /\ [][NextExportColumns]_vars

---------------------------------------------------------------------------
(* Vocabulary of the claims *)

Terminal(item) == item.status \in {"success", "error"}

\* run r has an extract call in flight
InFlight(r) == runs[r].pc = "await"

InFlightCalls == {r \in DOMAIN runs : InFlight(r)}

\* run r takes a step: an iteration starts, its call settles, or it returns
RunStep(r) == LoopBody(r) \/ LoopExit(r) \/ ExtractionSettles(r)

---------------------------------------------------------------------------
(* C1 *)

\* C1: once handleReset has discarded the Store, no step of a run that was
\* started before the reset writes the Store or changes the batch status.
C1_SupersededRunNeverWrites ==
  [][\A r \in DOMAIN runs :
       (runs[r].superseded /\ RunStep(r)) => (results' = results /\ status' = status)]_vars

---------------------------------------------------------------------------
(* C2 *)

\* the Store holds one terminal item per document of fs, in the order of fs
StoreCompleteFor(store, fs) ==
  /\ Len(store) = Len(fs)
  /\ \A k \in DOMAIN store : store[k].fileName = fs[k] /\ Terminal(store[k])

\* C2: in the step in which a run of startExtraction sets the status to
\* 'completed', the Store holds exactly one item per document of that batch,
\* item k carries the fileName of document k, and every item is 'success' or
\* 'error'.
C2_CompletedBatchIsWholeAndTerminal ==
  [][\A r \in DOMAIN runs :
       LoopExit(r) => (status' = "completed" /\ StoreCompleteFor(results', runs[r].files))]_vars

\* a batch of two differently named documents has completed, one item a
\* success and one an error
C2_Witness ==
  /\ status = "completed"
  /\ runs = <<>>
  /\ Len(results) = 2
  /\ results[1].fileName = "b.pdf" /\ results[2].fileName = "a.pdf"
  /\ results[1].status = "error" /\ results[2].status = "success"

---------------------------------------------------------------------------
(* C3 *)

\* C3 as stated: at most one extract call is in flight, whatever the
\* interleaving of startExtraction, handleReset, edits and completions.
C3_AtMostOneCallInFlight == Cardinality(InFlightCalls) <= 1

\* C3 as amended: as long as handleReset has never run while a call of
\* startExtraction had not returned, at most one extract call is in flight.
C3_AtMostOneCallInFlightWithoutReset ==
  ~resetWhileRunning => Cardinality(InFlightCalls) <= 1

\* no reset so far, and the second call of a two-document batch is in flight
C3_Witness ==
  /\ ~resetWhileRunning
  /\ \E r \in DOMAIN runs : InFlight(r) /\ runs[r].i = 2
  /\ status = "extracting"

---------------------------------------------------------------------------
(* C4 *)

\* terminal items, then at most one processing item, then pending items
StoreShape(store) ==
  \A k \in DOMAIN store :
    /\ store[k].status = "processing" =>
         /\ \A j \in 1..(k - 1) : Terminal(store[j])
         /\ \A j \in (k + 1)..Len(store) : store[j].status = "pending"
    /\ store[k].status = "pending" =>
         \A j \in (k + 1)..Len(store) : store[j].status = "pending"
    /\ Terminal(store[k]) => \A j \in 1..(k - 1) : Terminal(store[j])

\* the status moves a step of a run may make on one item
StatusMove(old, new) ==
  \/ new = old
  \/ old = "pending" /\ new = "processing"
  \/ old = "processing" /\ new \in {"success", "error"}

\* C4: every Store state is a run of terminal items, then at most one
\* processing item, then pending items; and a step of a batch moves an item
\* only from pending to processing or from processing to success or error.
C4_StatusLifecycle ==
  /\ [](StoreShape(results))
  /\ [][\A r \in DOMAIN runs :
          (LoopBody(r) \/ ExtractionSettles(r)) =>
             \A k \in DOMAIN runs[r].updatedResults :
               StatusMove(runs[r].updatedResults[k].status,
                          runs'[r].updatedResults[k].status)]_vars

\* the first item is terminal, the second is processing
C4_Witness ==
  /\ Len(results) = 2
  /\ results[1].status = "error"
  /\ results[2].status = "processing"

---------------------------------------------------------------------------
(* C5 *)

\* the call of run r has settled with a rejection
CallFails(r) ==
  /\ ~Busy
  /\ InFlight(r)
  /\ \E outcome \in extractDataFromPdf(runs[r].files[runs[r].i], runs[r].fields) :
       outcome.kind = "reject" /\ (Settle(r, outcome) \/ Fault(r, outcome))

\* C5: a failing extract call for document i sets item i, and only item i, to
\* 'error' with a message, and the batch goes on to the next document.
C5_FailureSetsOnlyThatItemToError ==
  [][\A r \in DOMAIN runs :
       CallFails(r) =>
         LET i == runs[r].i IN
           /\ results'[i].status = "error"
           /\ Truthy(results'[i].error)
           /\ \A k \in DOMAIN results' \ {i} :
                results'[k] = runs[r].updatedResults[k]
           /\ runs'[r].pc = "loop" /\ runs'[r].i = i + 1]_vars

---------------------------------------------------------------------------
(* C6 *)

\* C6: no thrown value escapes the loop as an uncaught fault that leaves the
\* status at 'extracting' with an item in 'processing'.
C6_NoFaultLeavesBatchStuck ==
  ~ /\ \E r \in DOMAIN runs : runs[r].pc = "fault"
    /\ ~\E r \in DOMAIN runs : Running(r)
    /\ status = "extracting"
    /\ \E k \in DOMAIN results : results[k].status = "processing"

---------------------------------------------------------------------------
(* C7 *)

\* the item carries a data mapping
HasData(item) == item.data.t = "object"

\* C7: in every Store state a reader can observe, an item has a data mapping
\* if and only if its status is 'success'.
C7_DataIffSuccess ==
  ~Busy => \A k \in DOMAIN results : HasData(results[k]) <=> results[k].status = "success"

---------------------------------------------------------------------------
(* C8 *)

\* C8: whenever the status is 'completed', every item of the Store is
\* terminal and no extract call is in flight.
C8_CompletedMeansAllTerminalAndIdle ==
  status = "completed" =>
    /\ \A k \in DOMAIN results : Terminal(results[k])
    /\ InFlightCalls = {}

---------------------------------------------------------------------------
(* C9 *)

\* run r has initialized its batch and not yet entered the loop
JustInitialized(r) == runs[r].pc = "loop" /\ runs[r].i = 1

\* C9: right after startExtraction has initialized a batch, the Store is
\* exactly one pending item per current document, in document order, with
\* the ids generated for this batch and neither data nor error.
C9_NewBatchReplacesStore ==
  \A r \in DOMAIN runs :
    JustInitialized(r) =>
      /\ Len(results) = Len(files)
      /\ \A k \in DOMAIN results :
           /\ results[k].status = "pending"
           /\ results[k].fileName = files[k]
           /\ results[k].id = runs[r].updatedResults[k].id
           /\ results[k].data = JUndefined
           /\ results[k].error = JUndefined

\* a batch is initialized while a run of an earlier batch has not returned,
\* so the Store it replaces may have been written by that earlier batch
C9_Witness ==
  /\ Len(runs) = 2
  /\ JustInitialized(2)
  /\ runs[1].superseded /\ runs[1].i = 2
  /\ Len(results) = 1

---------------------------------------------------------------------------
(* C18 *)

\* the entries of object obj other than key k
OtherEntries(obj, k) == SelectSeq(obj.v, LAMBDA e : e.k # k)

\* item new is item old with data[field] set to value and nothing else changed
OnlyFieldSet(old, new, field, value) ==
  /\ new.id = old.id /\ new.fileName = old.fileName
  /\ new.status = old.status /\ new.error = old.error
  /\ new.data.t = "object"
  /\ GetProp(new.data, field) = JString(value)
  /\ OtherEntries(new.data, field) = OtherEntries(old.data, field)

\* C18: handleDataUpdate(id, field, value) for the row k the user edits sets
\* data[field] of that item to value and changes nothing else of it when the
\* item has data, changes nothing of it when it has none, and leaves every
\* other item, the order and the length of the Store unchanged.
C18_CellEditChangesOnlyThatField ==
  [][\A k \in DOMAIN results, f \in DOMAIN fields, value \in CellInputs :
       (isEditable(results[k]) /\ handleDataUpdate(results[k].id, fields[f], value)) =>
          /\ Len(results') = Len(results)
          /\ IF Truthy(results[k].data)
             THEN OnlyFieldSet(results[k], results'[k], fields[f], value)
             ELSE results'[k] = results[k]
          /\ \A j \in DOMAIN results \ {k} : results'[j] = results[j]]_vars

---------------------------------------------------------------------------
(* C10 *)

\* a field matches one pattern
MatchesPattern(f, p) == RegExpTest(p, toLowerCase(f))

\* the resolution the claim describes: the highest-priority pattern that
\* matches any field decides, FieldSet order breaks ties within that pattern
PriorityField(patterns) ==
  LET hit(p) == \E i \in DOMAIN fields : MatchesPattern(fields[i], patterns[p]) IN
  IF \E p \in DOMAIN patterns : hit(p)
  THEN LET best == CHOOSE p \in DOMAIN patterns :
                     hit(p) /\ \A q \in 1..(p - 1) : ~hit(q)
           byBest == {i \in DOMAIN fields : MatchesPattern(fields[i], patterns[best])}
       IN JString(fields[CHOOSE i \in byBest : \A j \in byBest : i <= j])
  ELSE JUndefined

\* C10: for every role, findField resolves to the field matching the
\* highest-priority pattern of the role that matches any field of the FieldSet
\* (FieldSet order only breaks ties among the fields matching that pattern).
C10_HighestPriorityPatternWins ==
  \A role \in Roles : resolveRole(role) = PriorityField(RolePatterns(role))


---------------------------------------------------------------------------
(* Vocabulary of the summary claims *)

\* a selected Success item
Qualifies(item) == item.id \in selectedIds /\ item.status = "success"

\* the rows of the summary that hold the id among their member ids
RowsOf(rows, id) == {p \in DOMAIN rows : includes(rows[p].ids, id)}

\* the value is a non-empty string
Present(val) == val.t = "string" /\ val.v # <<>>

\* the value is absent, null, empty or white space only
Blank(val) ==
  \/ val.t \in {"undefined", "null"}
  \/ val.t = "string" /\ \A i \in DOMAIN val.v : val.v[i] \in WhiteSpace

\* a string value trimmed and case-folded
Norm(val) == toLowerCase(trim(val.v))

---------------------------------------------------------------------------
(* C11 *)

\* the items before position k do not hold a present value of the same norm
FirstOfNorm(k, found) ==
  \A j \in 1..(k - 1) :
    ~(/\ Qualifies(results[j])
      /\ Present(customerVal(results[j], found))
      /\ Norm(customerVal(results[j], found)) = Norm(customerVal(results[k], found)))

\* two selected Success items with a Customer value are in the same row
\* exactly when the values are equal after trim and case-folding
GroupedByNorm(rows, found) ==
  \A a \in DOMAIN results, b \in DOMAIN results :
    LET va == customerVal(results[a], found)
        vb == customerVal(results[b], found)
    IN (Qualifies(results[a]) /\ Qualifies(results[b]) /\ Present(va) /\ Present(vb)) =>
         /\ Cardinality(RowsOf(rows, results[a].id)) = 1
         /\ (Norm(va) = Norm(vb)) <=> (RowsOf(rows, results[a].id) = RowsOf(rows, results[b].id))

---------------------------------------------------------------------------
(* C12 *)

\* the Store position of the item with the id
PositionOf(id) == CHOOSE k \in DOMAIN results : results[k].id = id

\* C12: the GroupRecords are in the order in which their keys first occur
\* among the filtered items in Store order: the first member of an earlier
\* GroupRecord precedes the first member of a later one in the Store.
C12_RowsInFirstSeenOrder ==
  LET rows == summaryRows
  IN \A p \in DOMAIN rows, q \in DOMAIN rows :
       p < q => PositionOf(rows[p].ids[1]) < PositionOf(rows[q].ids[1])

---------------------------------------------------------------------------
(* C13 *)

\* C13: every selected Success item whose Customer value is absent, null,
\* empty or white space only is a member of a GroupRecord whose key is the
\* one derived from "Unknown" and whose customerName is "Unknown".
C13_BlankCustomerIsUnknown ==
  LET rows == summaryRows
      found == roleFields
  IN \A k \in DOMAIN results :
       (Qualifies(results[k]) /\ Blank(customerVal(results[k], found))) =>
          \E p \in RowsOf(rows, results[k].id) :
            /\ rows[p].key = toLowerCase(trim(S_Unknown))
            /\ rows[p].customerName = S_Unknown

---------------------------------------------------------------------------
(* C14 *)

\* the five roles other than Customer
OtherRoles == Roles \ {"Customer"}

\* the display value of a row for a role
RowDisplay(row, role) ==
  CASE role = "JobNumber" -> row.jobNos
    [] role = "AdvanceTotal" -> row.advanceTotal
    [] role = "PaymentTerms" -> row.paymentTerms
    [] role = "InvoiceDate" -> row.invoiceDate
    [] role = "GrandTotal" -> row.grandTotal

\* the value the m-th member of a row holds for a field
MemberValue(row, m, field) == GetField(results[PositionOf(row.ids[m])].data, field)

\* the members of a row that hold a non-empty value none before them holds
FirstContributions(row, field) ==
  {m \in DOMAIN row.ids :
     /\ Truthy(MemberValue(row, m, field))
     /\ \A j \in 1..(m - 1) : MemberValue(row, j, field) # MemberValue(row, m, field)}

\* the values of the first contributions in the order of the members
DistinctValues(row, field) ==
  LET firsts == FirstContributions(row, field)
  IN [i \in 1..Cardinality(firsts) |->
        String(MemberValue(row,
                 CHOOSE m \in firsts : Cardinality({x \in firsts : x <= m}) = i,
                 field))]

\* C14: for each GroupRecord and each role other than Customer that has a
\* field, the display value is "-" when no member holds a non-empty value
\* for the field, and otherwise the distinct values of the members, once
\* each, in the order of first contribution, joined with ", ".
C14_DisplayIsDistinctValuesJoined ==
  LET rows == summaryRows
  IN \A p \in DOMAIN rows, role \in OtherRoles :
       LET field == resolveRole(role)
       IN Truthy(field) =>
            RowDisplay(rows[p], role) =
              IF FirstContributions(rows[p], field) = {} THEN S_Dash
              ELSE join(DistinctValues(rows[p], field), S_CommaSpace)

\* a GroupRecord of three members that contributed J1, J2 and J1 again
C14_Witness ==
  LET rows == summaryRows
  IN \E p \in DOMAIN rows, role \in OtherRoles :
       /\ rows[p].fileCount = 3
       /\ MemberValue(rows[p], 1, resolveRole(role)) = JString(S_J1)
       /\ MemberValue(rows[p], 2, resolveRole(role)) = JString(S_J2)
       /\ MemberValue(rows[p], 3, resolveRole(role)) = JString(S_J1)
       /\ RowDisplay(rows[p], role) = S_J1 \o S_CommaSpace \o S_J2

---------------------------------------------------------------------------
(* C15 *)

\* C15: the member ids of the GroupRecords partition the selected Success
\* items: each such item is in exactly one GroupRecord, once, no other id is
\* a member, fileCount is the number of member ids, and there is no
\* GroupRecord when no item qualifies.
C15_RowsPartitionSelectedSuccess ==
  LET rows == summaryRows
  IN /\ \A k \in DOMAIN results :
          IF Qualifies(results[k])
          THEN /\ Cardinality(RowsOf(rows, results[k].id)) = 1
               /\ \A p \in RowsOf(rows, results[k].id) :
                    Cardinality({m \in DOMAIN rows[p].ids :
                                   rows[p].ids[m] = results[k].id}) = 1
          ELSE RowsOf(rows, results[k].id) = {}
     /\ \A p \in DOMAIN rows :
          /\ rows[p].fileCount = Len(rows[p].ids)
          /\ \A m \in DOMAIN rows[p].ids :
               \E k \in DOMAIN results : results[k].id = rows[p].ids[m]
     /\ (\A k \in DOMAIN results : ~Qualifies(results[k])) => rows = <<>>

---------------------------------------------------------------------------
(* C16 *)

\* no field of the FieldSet matches a pattern of the role
NoFieldMatches(role) ==
  \A f \in DOMAIN fields, p \in DOMAIN RolePatterns(role) :
    ~RegExpTest(RolePatterns(role)[p], toLowerCase(fields[f]))

\* C16: when no field matches a Customer pattern the GroupRecords are keyed
\* by the value of the first FieldSet entry; when no field matches the
\* patterns of another role, every GroupRecord shows "-" for that role.
C16_CustomerFallsBackOthersAbsent ==
  LET rows == summaryRows
  IN /\ (NoFieldMatches("Customer") /\ Len(fields) > 0) =>
          \A p \in DOMAIN rows : \A m \in DOMAIN rows[p].ids :
            LET val == MemberValue(rows[p], m, JString(fields[1]))
            IN rows[p].key =
                 toLowerCase(trim(IF Truthy(val) THEN String(val) ELSE S_Unknown))
     /\ \A role \in OtherRoles :
          NoFieldMatches(role) =>
            \A p \in DOMAIN rows : RowDisplay(rows[p], role) = S_Dash

\* the default FieldSet: no Customer field and no Advance Total field, and a
\* GroupRecord keyed by the Invoice Number of its member
C16_Witness ==
  LET rows == summaryRows
  IN /\ NoFieldMatches("Customer")
     /\ NoFieldMatches("AdvanceTotal")
     /\ \E p \in DOMAIN rows :
          /\ rows[p].key = toLowerCase(S_Acme)
          /\ MemberValue(rows[p], 1, JString(fields[1])) = JString(S_Acme)
          /\ rows[p].advanceTotal = S_Dash

---------------------------------------------------------------------------
(* C19 *)

\* the entries are pairwise distinct and none is empty or white space only
FieldSetWellFormed(fs) ==
  /\ \A i \in DOMAIN fs, j \in DOMAIN fs : i # j => fs[i] # fs[j]
  /\ \A i \in DOMAIN fs : \E c \in DOMAIN fs[i] : fs[i][c] \notin WhiteSpace

\* new holds the entries of old, each as often
IsPermutation(new, old) ==
  /\ Len(new) = Len(old)
  /\ \A i \in DOMAIN old :
       Cardinality({j \in DOMAIN new : new[j] = old[i]}) =
         Cardinality({j \in DOMAIN old : old[j] = old[i]})

\* the name without the white space around it, by position
Stripped(name) ==
  LET inked == {i \in DOMAIN name : name[i] \notin WhiteSpace}
  IN [i \in 1..Cardinality({k \in DOMAIN name :
                              \E a \in inked, b \in inked : a <= k /\ k <= b}) |->
        name[i - 1 + CHOOSE a \in inked : \A b \in inked : a <= b]]

\* C19: the FieldSet entries stay pairwise distinct and none is blank under
\* handleAddField, removeField, applyTemplate and handleDrop; an add changes
\* the FieldSet only for a name that is neither blank nor present, and a
\* drop yields a permutation of the FieldSet.
C19_FieldSetStaysWellFormed ==
  /\ FieldSetWellFormed(fields)
  /\ [][/\ FieldSetWellFormed(fields')
        /\ \A newField \in NewFieldInputs :
             handleAddField(newField) =>
               /\ \E c \in DOMAIN newField : newField[c] \notin WhiteSpace
               /\ ~includes(fields, Stripped(newField))
               /\ fields' = Append(fields, Stripped(newField))
        /\ \A i \in DOMAIN fields :
             handleDrop(fields[i]) => IsPermutation(fields', fields)]_vars

\* a column was dragged in front of another one, next to an added field
C19_Witness ==
  /\ Len(fields) >= 4
  /\ fields[1] = S_TotalAmount
  /\ fields[2] = S_InvoiceNumber
  /\ includes(fields, S_Name)
  /\ draggingField = JNull

---------------------------------------------------------------------------
(* C20 *)

\* the Store positions of the items an export with the selection writes
ExportedPositions(selected) ==
  {k \in DOMAIN results :
     /\ results[k].status = "success"
     /\ results[k].data.t = "object"
     /\ selected.given => results[k].id \in selected.ids}

\* the row holds the file name and the data of the item and nothing else
RowOfItem(row, item) ==
  /\ GetProp(row, S_FileName).v = item.fileName
  /\ Len(row.v) = 1 + Len(item.data.v)
  /\ \A e \in DOMAIN item.data.v :
       GetProp(row, item.data.v[e].k) = item.data.v[e].v

\* what an export with the selection leaves: a file with one row per
\* written position in Store order, or the alert and no file
ExportOutcome(selected, filename) ==
  LET positions == ExportedPositions(selected)
  IN IF positions = {}
     THEN exported'.kind = "alert" /\ exported'.rows = <<>>
     ELSE /\ exported'.kind = "file"
          /\ exported'.filename = filename
          /\ Len(exported'.rows) = Cardinality(positions)
          /\ \A k \in positions :
               RowOfItem(exported'.rows[Cardinality({j \in positions : j <= k})],
                         results[k])

\* C20: exportToExcel writes one row per Store item that is in status
\* 'success' with data and, when a selection is given, selected, in Store
\* order and no other row; when no item qualifies it writes no file and
\* raises the alert.
C20_ExportWritesQualifyingRowsOrAlerts ==
  [][/\ handleExport => ExportOutcome(SelectionGiven(selectedIds), "extracted_data.xlsx")
     /\ handleExportAll => ExportOutcome(NoSelection, "all_extracted_data.xlsx")]_vars

\* a file of the two selected of three exportable items
C20_Witness ==
  /\ Cardinality(ExportedPositions(NoSelection)) = 3
  /\ selectedIds = {ItemIds[1], ItemIds[3]}
  /\ exported.kind = "file"
  /\ exported.filename = "extracted_data.xlsx"
  /\ Len(exported.rows) = 2
  /\ GetProp(exported.rows[2], S_FileName).v = ItemFileNames[3]

---------------------------------------------------------------------------
(* C21 *)

\* C21: the columns of an exported table are FileName followed by one
\* column per FieldSet entry in the FieldSet order at the time of the
\* export, whatever was reordered, removed or added after the extraction.
C21_ExportColumnsFollowFieldSet ==
  [][((handleExport \/ handleExportAll) /\ exported'.kind = "file") =>
        sheetColumns(exported'.rows) = <<S_FileName>> \o fields]_vars

---------------------------------------------------------------------------
(* C22 *)

\* C22: in every reachable Store the ids of the items are pairwise distinct,
\* whatever generateId returns when a batch is initialized.
C22_StoreIdsPairwiseDistinct ==
  \A a \in DOMAIN results, b \in DOMAIN results :
    a # b => results[a].id # results[b].id

---------------------------------------------------------------------------
(* C23 *)

\* C23: a write of the running batch (the Processing write, a commit, the
\* end of the loop) keeps the data of every item that is already Success, so
\* that a cell edit made while the batch runs is still in the Store after it.
C23_RunningBatchKeepsCellEdits ==
  [][\A r \in DOMAIN runs :
       (RunStep(r) /\ ~resetWhileRunning) =>
          \A k \in DOMAIN results :
            (results[k].status = "success" /\ HasData(results[k])) =>
               /\ k \in DOMAIN results'
               /\ results'[k].data = results[k].data]_vars

=============================================================================
